---- MODULE Spec2Model ----
(***************************************************************************)
(* Resumable incremental crawl engine of x-scraper.                        *)
(*                                                                         *)
(*   XScraper.scrape_user_tweets        src/src/scraper.py                 *)
(*   PlaywrightScraper (listener, scroll loop)                             *)
(*                                      src/src/playwright_scraper.py      *)
(*   CheckpointManager (merge, persist) src/src/checkpoint_manager.py      *)
(*                                                                         *)
(* A tweet id is a string: it is modelled as the sequence of its           *)
(* characters, a digit being 0..9 and any other character a code >= 10.    *)
(* The empty sequence is the empty string (falsy in Python).  A tweet is a *)
(* record [id, scraped_at]; scraped_at stands for the payload captured     *)
(* with the id (the number of the session that extracted it).              *)
(***************************************************************************)
EXTENDS Integers, Sequences, FiniteSets, TLC

VARIABLES
    \* ---- disk, per target (CheckpointManager files)
    archive,                    \* 'tweets' of tweets_<user>.json; <<>> when the file is missing or unreadable
    checkpoint,                 \* checkpoint.json as a record, NoCheckpoint when missing or unreadable
    \* ---- PlaywrightScraper configuration (constructor)
    max_scroll_attempts,
    max_attempts_without_new,
    overlap_threshold,
    \* ---- XScraper.scrape_user_tweets locals
    pc,                         \* position of the crawl
    resume,                     \* the resume argument
    max_tweets_per_session,     \* the session cap, 0 for None
    existing_tweets,            \* archive as loaded at the start of the session
    resume_from_tweet_id,       \* NoId for None
    session_all_tweets,         \* the local all_tweets (merged list)
    result,                     \* the value returned to the caller
    \* ---- PlaywrightScraper session state
    all_tweets,                 \* self.all_tweets, the buffer
    scraped_tweet_ids,
    existing_tweet_ids,
    scroll_attempts,
    scroll_attempts_without_new,
    resume_point_found,
    tweets_before,
    \* ---- history of the current session (observation only)
    sessions,                   \* number of sessions started
    delivered,                  \* ids of the tweets the listener extracted in this session
    clears,                     \* number of times the loop cleared the buffer in this session
    write_failed,               \* a write of this session's commit did not reach the disk
    \* ---- CheckpointManager.merge_tweets applied to given lists
    mergeA, mergeB, mergeOut, mergeStep,
    \* ---- _intercept_response on responses that fail (observation only)
    handler,                    \* how the last call of the handler ended: "returned" or "raised"
    faults,                     \* responses of this session whose decoding or parsing failed
    faulted_at,                 \* length of the buffer after the last such response, -1 if none
    last_shape,                 \* whether the last payload handled in this session had a known shape, "none" if none
    after_anomaly,              \* ids of the tweet entries that followed an anomalous entry in the last payload
    stale_ids,                  \* ids appended from responses of the previous crawl's page
    \* ---- PlaywrightScraper.initialize and login
    cookies_file,               \* "absent", "saved" or "unreadable"
    is_logged_in,               \* self.is_logged_in
    login_pc,                   \* position of the browser session in initialize and login
    login_returned,             \* "none" while login runs, then "ok" (True) or "fail" (False)
    page_url,                   \* self.page.url
    \* ---- history of the current login call (observation only)
    login_calls,                \* number of calls of login
    login_via,                  \* the branch that returned: "none", "cookies" or "interactive"
    indicator_missed,           \* the wait for the success indicator of the cookie check timed out
    email_absent,               \* the wait for the email challenge timed out
    last_wait,                  \* outcome of the last wait of the flow: "none", "found", "timeout"
    \* ---- a call through retry_on_network_error or handle_rate_limit (decorators.py)
    decorator,                  \* "retry", "navigate" (_navigate_with_retry), "rate_limit",
                                \* or "none" (the page.goto of the profile crawl)
    max_retries, delay, backoff,
    call_pc,                    \* "idle", "invoking", "sleeping", "returned" or "raised"
    attempt,                    \* the loop variable of the wrapper
    current_delay,
    last_exception,             \* NoException for None
    raised_exc,                 \* the exception that reached the caller, NoException if none
    \* ---- history of the call (observation only)
    outcomes,                   \* what each invocation of the wrapped operation did
    slept,                      \* the waits of the wrapper, in order
    \* ---- XScraper.login (scraper.py 121-165)
    playwright_scraper,         \* "None" or "created"
    browser_ready,              \* initialize returned True: the page exists
    twitter_is_logged_in,       \* twitter_session.is_logged_in
    xlogin_log                  \* the calls of XScraper.login so far (observation only)

vars == <<archive, checkpoint, max_scroll_attempts, max_attempts_without_new,
          overlap_threshold, pc, resume, max_tweets_per_session, existing_tweets,
          resume_from_tweet_id, session_all_tweets, result, all_tweets,
          scraped_tweet_ids, existing_tweet_ids, scroll_attempts,
          scroll_attempts_without_new, resume_point_found, tweets_before,
          sessions, delivered, clears, write_failed, mergeA, mergeB, mergeOut, mergeStep,
          handler, faults, faulted_at, last_shape, after_anomaly, stale_ids, cookies_file, is_logged_in, login_pc,
          login_returned, page_url, login_calls, login_via, indicator_missed,
          email_absent, last_wait, decorator, max_retries, delay, backoff, call_pc,
          attempt, current_delay, last_exception, raised_exc, outcomes, slept,
          playwright_scraper, browser_ready, twitter_is_logged_in, xlogin_log>>

diskVars == <<archive, checkpoint>>
configVars == <<max_scroll_attempts, max_attempts_without_new, overlap_threshold>>
crawlVars == <<resume, max_tweets_per_session, existing_tweets, resume_from_tweet_id>>
scrollVars == <<scroll_attempts, scroll_attempts_without_new, resume_point_found, tweets_before>>
bufferVars == <<all_tweets, scraped_tweet_ids>>
mergeVars == <<mergeA, mergeB, mergeOut, mergeStep>>
listenerVars == <<handler, faults, faulted_at, last_shape, after_anomaly, stale_ids>>
loginVars == <<cookies_file, is_logged_in, login_pc, login_returned, page_url,
               login_calls, login_via, indicator_missed, email_absent, last_wait>>
retryVars == <<decorator, max_retries, delay, backoff, call_pc, attempt, current_delay,
               last_exception, raised_exc, outcomes, slept>>
xloginVars == <<playwright_scraper, browser_ready, twitter_is_logged_in, xlogin_log>>
crawlState == <<diskVars, configVars, crawlVars, scrollVars, bufferVars, listenerVars, pc,
                session_all_tweets, result, existing_tweet_ids, sessions, delivered, clears,
                write_failed>>

----------------------------------------------------------------------------
(* Bounds of the model *)

MaxId == 2              \* number of distinct numeric tweet ids of the timeline
MaxBatch == 1           \* entries of one intercepted response
MaxSessions == 2        \* crawl sessions of one behaviour
MaxCap == 1             \* largest session cap tried
MaxThreshold == 1       \* overlap_detection_threshold of the configuration
ShortScroll == 2        \* max_scroll_attempts of the multi-session behaviours
ShortStreak == 1        \* max_attempts_without_new of the multi-session behaviours
MaxLen == 2             \* length of the lists given to merge_tweets
MaxMerges == 3          \* applications of merge_tweets to one pair of lists
MaxFaults == 1           \* failing responses of one session
MaxLogins == 2           \* calls of login on one browser session
MaxRetries == 2         \* largest max_retries of retry_on_network_error tried
MaxDelay == 2           \* largest delay tried, in seconds
MaxBackoff == 2         \* largest backoff factor tried
MaxRetryAfter == 1      \* largest retry_after of a RateLimitError, in seconds
MaxXLogins == 4         \* calls of XScraper.login on one XScraper
MaxStamp == 2           \* payload versions of the lists given to merge_tweets

(* Constants of the program *)

ZeroTweetsAttempts == 20    \* playwright_scraper.py:801
ResumeGiveUp == 100         \* playwright_scraper.py:806
BottomStreak == 10          \* playwright_scraper.py:826
NavigateRetries == 3        \* playwright_scraper.py:598
NavigateDelay == 10         \* playwright_scraper.py:598
DefaultBackoff == 2         \* decorators.py:15
RateLimitWait == 900        \* decorators.py:79

NoId == <<-1>>
NoCheckpoint == [total_tweets |-> -1, oldest_tweet_id |-> NoId, newest_tweet_id |-> NoId,
                 session_count |-> 0, last_session_tweets |-> 0]
NoResult == [error |-> FALSE, tweet_count |-> -1, tweets |-> <<>>]

----------------------------------------------------------------------------
(* Tweet ids as strings *)

RECURSIVE Digits(_)
Digits(n) == IF n < 10 THEN <<n>> ELSE Append(Digits(n \div 10), n % 10)

\* the ids of the model: "9", "10", "11", ... (their string order is not their numeric order)
TweetId(n) == Digits(n + 8)

TimelineIds == {TweetId(n) : n \in 1..MaxId}

\* str.isdigit(): non-empty and every character a digit
IsDigit(s) == Len(s) > 0 /\ \A i \in 1..Len(s) : s[i] \in 0..9

RECURSIVE IntOf(_)
IntOf(s) == IF Len(s) = 0 THEN 0
            ELSE 10 * IntOf(SubSeq(s, 1, Len(s) - 1)) + s[Len(s)]

\* key=lambda x: int(x.get('id', '0')) if x.get('id', '').isdigit() else 0
SortKey(t) == IF IsDigit(t.id) THEN IntOf(t.id) ELSE 0

Truthy(id) == id # <<>>

IdsOf(tweets) == {tweets[i].id : i \in 1..Len(tweets)}

TruthyIdsOf(tweets) == {id \in IdsOf(tweets) : Truthy(id)}

NoDuplicateIds(tweets) ==
    \A i, j \in 1..Len(tweets) : tweets[i].id = tweets[j].id => i = j

----------------------------------------------------------------------------
(* Python's stable sorted() *)

RECURSIVE InsertAsc(_, _)
InsertAsc(s, t) ==
    IF s = <<>> THEN <<t>>
    ELSE IF SortKey(s[Len(s)]) <= SortKey(t) THEN Append(s, t)
    ELSE Append(InsertAsc(SubSeq(s, 1, Len(s) - 1), t), s[Len(s)])

RECURSIVE SortedAsc(_)
SortedAsc(s) ==
    IF s = <<>> THEN <<>>
    ELSE InsertAsc(SortedAsc(SubSeq(s, 1, Len(s) - 1)), s[Len(s)])

\* sorted(..., reverse=True) keeps the input order of equal keys
RECURSIVE InsertDesc(_, _)
InsertDesc(s, t) ==
    IF s = <<>> THEN <<t>>
    ELSE IF SortKey(s[Len(s)]) >= SortKey(t) THEN Append(s, t)
    ELSE Append(InsertDesc(SubSeq(s, 1, Len(s) - 1), t), s[Len(s)])

RECURSIVE SortedDesc(_)
SortedDesc(s) ==
    IF s = <<>> THEN <<>>
    ELSE InsertDesc(SortedDesc(SubSeq(s, 1, Len(s) - 1)), s[Len(s)])

----------------------------------------------------------------------------
(* CheckpointManager *)

\* a dict keyed by id, in insertion order, is the sequence of its values
HasKey(d, id) == \E i \in 1..Len(d) : d[i].id = id

\* variant: a list instead of a dict, every tweet appended
DictPutAppend(d, t) == Append(d, t)

\* variant: the first tweet stored for an id is kept
DictPutFirst(d, t) == IF HasKey(d, t.id) THEN d ELSE Append(d, t)

\* all_tweets[tweet_id] = tweet
DictPut(d, t) ==
    IF HasKey(d, t.id)
    THEN [i \in 1..Len(d) |-> IF d[i].id = t.id THEN t ELSE d[i]]
    ELSE Append(d, t)

RECURSIVE MergeInto(_, _)
MergeInto(d, tweets) ==
    IF tweets = <<>> THEN d
    ELSE LET t == Head(tweets)
         IN  MergeInto(IF Truthy(t.id) THEN DictPut(d, t) ELSE d, Tail(tweets))

\* variant: the merged list starts from an empty dict and the new list only
merge_tweets_new_only(existing, new) == MergeInto(<<>>, new)

merge_tweets(existing, new) == MergeInto(MergeInto(<<>>, existing), new)

\* save_all_tweets: if tweet_id and tweet_id not in unique_tweets
RECURSIVE UniqueInto(_, _)
UniqueInto(d, tweets) ==
    IF tweets = <<>> THEN d
    ELSE LET t == Head(tweets)
         IN  UniqueInto(IF Truthy(t.id) /\ ~HasKey(d, t.id) THEN Append(d, t) ELSE d,
                        Tail(tweets))

unique_tweets(tweets) == UniqueInto(<<>>, tweets)

\* variant: sorted without reverse=True
sorted_tweets_oldest_first(tweets) == SortedAsc(unique_tweets(tweets))

\* the 'tweets' list save_all_tweets writes
sorted_tweets(tweets) == SortedDesc(unique_tweets(tweets))

----------------------------------------------------------------------------
(* ResponseListener: _intercept_response -> _parse_tweets_from_timeline *)

\* the payloads of one response: the rest_id of each timeline entry, '' when absent
Responses ==
    UNION {[1..n -> TimelineIds \cup {<<>>}] : n \in 1..MaxBatch}

\* variant: the tweet is appended and its id is not recorded
ParseEntryUnrecorded(buf, entry, stamp) ==
    IF Truthy(entry) /\ entry \notin buf.ids /\ entry \notin existing_tweet_ids
    THEN [tweets |-> Append(buf.tweets, [id |-> entry, scraped_at |-> stamp]),
          ids |-> buf.ids]
    ELSE buf

\* variant: the entry is not checked against the archived ids
ParseEntryUnchecked(buf, entry, stamp) ==
    IF Truthy(entry) /\ entry \notin buf.ids
    THEN [tweets |-> Append(buf.tweets, [id |-> entry, scraped_at |-> stamp]),
          ids |-> buf.ids \cup {entry}]
    ELSE buf

\* variant: the entry is not checked against the ids scraped in this session
ParseEntryRepeated(buf, entry, stamp) ==
    IF Truthy(entry) /\ entry \notin existing_tweet_ids
    THEN [tweets |-> Append(buf.tweets, [id |-> entry, scraped_at |-> stamp]),
          ids |-> buf.ids \cup {entry}]
    ELSE buf

\* one entry: append unless the id is empty, already scraped, or already archived
ParseEntry(buf, entry, stamp) ==
    IF Truthy(entry) /\ entry \notin buf.ids /\ entry \notin existing_tweet_ids
    THEN [tweets |-> Append(buf.tweets, [id |-> entry, scraped_at |-> stamp]),
          ids |-> buf.ids \cup {entry}]
    ELSE buf

RECURSIVE ParseEntries(_, _, _)
ParseEntries(buf, entries, stamp) ==
    IF entries = <<>> THEN buf
    ELSE ParseEntries(ParseEntry(buf, Head(entries), stamp), Tail(entries), stamp)

\* the points where the crawl is suspended in an await on the page
Suspended == pc \in {"navigating", "sleeping", "at_bottom"}

Listener(entries) ==
    /\ Suspended
    /\ LET buf == ParseEntries([tweets |-> all_tweets, ids |-> scraped_tweet_ids],
                               entries, sessions)
       IN  /\ all_tweets' = buf.tweets
           /\ scraped_tweet_ids' = buf.ids
    /\ delivered' = delivered \cup {entries[i] : i \in {j \in 1..Len(entries) : Truthy(entries[j])}}
    /\ UNCHANGED <<diskVars, configVars, crawlVars, scrollVars, mergeVars, retryVars, xloginVars, loginVars, listenerVars, pc,
                   session_all_tweets, result, existing_tweet_ids, sessions, clears, write_failed>>

\* the ways the handling of a response fails: response.json() raises (line
\* 144), or the payload makes the parser raise after some entries were handled
\* (lines 223-251)
Faults == {"decode", "parse"}

\* variant: the handler without its except clauses
HandlerOutcomeUncaught(fault) == IF fault \in Faults THEN "raised" ELSE "returned"

\* lines 165-169 and 262-263: every Exception is caught and logged
HandlerOutcome(fault) == "returned"

\* a response that fails; handled holds the entries the parser took before it raised
FaultyResponse(fault, handled) ==
    /\ Suspended
    /\ faults < MaxFaults
    /\ fault \in Faults
    /\ fault = "decode" => handled = <<>>
    /\ LET buf == ParseEntries([tweets |-> all_tweets, ids |-> scraped_tweet_ids],
                               handled, sessions)
       IN  /\ all_tweets' = buf.tweets
           /\ scraped_tweet_ids' = buf.ids
           /\ faulted_at' = Len(buf.tweets)
    /\ delivered' = delivered \cup {handled[i] : i \in {j \in 1..Len(handled) : Truthy(handled[j])}}
    /\ faults' = faults + 1
    /\ handler' = HandlerOutcome(fault)
    /\ UNCHANGED <<diskVars, configVars, crawlVars, scrollVars, mergeVars, retryVars, xloginVars, loginVars, pc,
                   session_all_tweets, result, existing_tweet_ids, sessions, clears, write_failed,
                   last_shape, after_anomaly, stale_ids>>

----------------------------------------------------------------------------
(* _parse_tweets_from_timeline on whole payloads (lines 205-263)            *)

\* the four paths tried for the instructions, lines 208-214
KnownShapes == {"timeline_v2", "timeline", "search_timeline", "threaded_conversation"}

Shapes == KnownShapes \cup {"unknown"}

\* the entries of a payload: a tweet with its rest_id; a cursor (skipped at
\* 238-240); a tweet with a field of the wrong type, for which
\* _extract_tweet_data raises and returns None (359-361); an entry whose
\* entryId is not a string, for which the test at 238 raises TypeError; an
\* entry that is not an object, for which entry.get at 235 raises AttributeError
EntryKinds == {"tweet", "cursor", "malformed_field", "bad_entry_id", "wrong_shape"}

TweetEntries == {[kind |-> "tweet", id |-> id] : id \in TimelineIds \cup {<<>>}}

OtherEntries == {[kind |-> k, id |-> <<>>] : k \in EntryKinds \ {"tweet"}}

\* the payloads handled: one tweet entry, alone or after an entry of another kind
Payloads ==
    [shape : Shapes,
     entries : {<<t>> : t \in TweetEntries}
                   \cup {<<e, t>> : e \in OtherEntries, t \in TweetEntries}]

\* the entries at which an exception leaves the for loops, to the except of line 262
LeavesLoop(entry) == entry.kind \in {"bad_entry_id", "wrong_shape"}

Anomalous(entry) == entry.kind \in {"malformed_field", "bad_entry_id", "wrong_shape"}

\* lines 234-251: the entries in order, up to the first that raises
RECURSIVE ParseTimeline(_, _, _)
ParseTimeline(buf, entries, stamp) ==
    IF entries = <<>> THEN buf
    ELSE LET entry == Head(entries)
         IN  IF LeavesLoop(entry) THEN buf
             ELSE ParseTimeline(IF entry.kind = "tweet"
                                THEN ParseEntry(buf, entry.id, stamp) ELSE buf,
                                Tail(entries), stamp)

\* the rest_ids _extract_tweet_data returned for the payload
RECURSIVE Extracted(_)
Extracted(entries) ==
    IF entries = <<>> \/ LeavesLoop(Head(entries)) THEN {}
    ELSE (IF Head(entries).kind = "tweet" /\ Truthy(Head(entries).id)
          THEN {Head(entries).id} ELSE {}) \cup Extracted(Tail(entries))

\* variant: a payload of no known shape is read as a timeline
UnknownShapeParsed(buf, entries, stamp) == ParseTimeline(buf, entries, stamp)

\* lines 216-219: no instructions under any path, return
UnknownShape(buf, entries, stamp) == buf

ParsePayload(buf, payload, stamp) ==
    IF payload.shape \in KnownShapes
    THEN ParseTimeline(buf, payload.entries, stamp)
    ELSE UnknownShape(buf, payload.entries, stamp)

\* the ids of the well-formed tweet entries that come after an anomalous entry
AfterAnomaly(entries) ==
    {entries[j].id : j \in {k \in 1..Len(entries) :
                                /\ entries[k].kind = "tweet"
                                /\ Truthy(entries[k].id)
                                /\ \E i \in 1..(k - 1) : Anomalous(entries[i])}}

\* _intercept_response on a response with the given payload
PayloadResponse(payload) ==
    /\ Suspended
    /\ LET buf == ParsePayload([tweets |-> all_tweets, ids |-> scraped_tweet_ids],
                               payload, sessions)
       IN  /\ all_tweets' = buf.tweets
           /\ scraped_tweet_ids' = buf.ids
    /\ delivered' = delivered \cup (IF payload.shape \in KnownShapes
                                    THEN Extracted(payload.entries) ELSE {})
    /\ last_shape' = IF payload.shape \in KnownShapes THEN "known" ELSE "unknown"
    /\ after_anomaly' = IF payload.shape \in KnownShapes
                        THEN AfterAnomaly(payload.entries) ELSE {}
    /\ handler' = HandlerOutcome("parse")
    /\ UNCHANGED <<diskVars, configVars, crawlVars, scrollVars, mergeVars, retryVars, xloginVars,
                   loginVars, pc, session_all_tweets, result, existing_tweet_ids, sessions,
                   clears, write_failed, faults, faulted_at, stale_ids>>

\* a response to a request of the previous crawl's page, handled after the
\* reset of lines 532-533 while the new page loads (548-550): the handler is
\* registered once on the page (110) and handles it as any other
StaleResponse(entries) ==
    /\ pc = "navigating"
    /\ sessions >= 2
    /\ LET buf == ParseEntries([tweets |-> all_tweets, ids |-> scraped_tweet_ids],
                               entries, sessions)
       IN  /\ all_tweets' = buf.tweets
           /\ scraped_tweet_ids' = buf.ids
           /\ stale_ids' = stale_ids \cup (buf.ids \ scraped_tweet_ids)
    /\ delivered' = delivered \cup {entries[i] : i \in {j \in 1..Len(entries) : Truthy(entries[j])}}
    /\ UNCHANGED <<diskVars, configVars, crawlVars, scrollVars, mergeVars, retryVars, xloginVars,
                   loginVars, pc, session_all_tweets, result, existing_tweet_ids, sessions,
                   clears, write_failed, handler, faults, faulted_at, last_shape,
                   after_anomaly>>

----------------------------------------------------------------------------
(* XScraper.scrape_user_tweets, up to the call of the scroll loop *)

WriteOutcomes == {"ok", "unwritten", "truncated"}

\* no call of scrape_user_tweets is in progress
Callable == pc \in {"idle", "done", "raised"}

\* scraper.py 271-273 and 370-376: the login before the scrape fails, the
\* RuntimeError is logged and raised again to the caller
LoginFailed ==
    /\ Callable
    /\ sessions < MaxSessions
    /\ sessions' = sessions + 1
    /\ result' = NoResult
    /\ pc' = "raised"
    /\ UNCHANGED <<diskVars, configVars, crawlVars, scrollVars, bufferVars, mergeVars, retryVars, xloginVars, loginVars, listenerVars,
                   session_all_tweets, existing_tweet_ids, delivered, clears, write_failed>>

\* scraper.py 246-264 and playwright_scraper.py 530-536
StartSession(r, cap, loadOk) ==
    /\ Callable
    /\ sessions < MaxSessions
    /\ sessions' = sessions + 1
    /\ resume' = r
    /\ max_tweets_per_session' = cap
    /\ LET ckpt == IF r THEN checkpoint ELSE NoCheckpoint
           loaded == IF ckpt # NoCheckpoint /\ loadOk THEN archive ELSE <<>>
       IN  /\ existing_tweets' = loaded
           /\ resume_from_tweet_id' = ckpt.oldest_tweet_id
           /\ existing_tweet_ids' = TruthyIdsOf(loaded)
    /\ all_tweets' = <<>>
    /\ scraped_tweet_ids' = {}
    /\ delivered' = {}
    /\ clears' = 0
    /\ write_failed' = FALSE
    /\ session_all_tweets' = <<>>
    /\ result' = NoResult
    /\ scroll_attempts' = 0
    /\ scroll_attempts_without_new' = 0
    /\ resume_point_found' = TRUE
    /\ tweets_before' = 0
    /\ pc' = "navigating"
    /\ handler' = "returned"
    /\ faults' = 0
    /\ faulted_at' = -1
    /\ last_shape' = "none"
    /\ after_anomaly' = {}
    /\ stale_ids' = {}
    /\ UNCHANGED <<diskVars, configVars, mergeVars, retryVars, xloginVars, loginVars>>

\* variant: the result of an abort without the buffer, as the one of line 558
ErrorResultEmpty(buffer) == [error |-> TRUE, tweet_count |-> -1, tweets |-> <<>>]

\* line 585: {'error': str(e), 'tweets': self.all_tweets}
ErrorResult(buffer) == [error |-> TRUE, tweet_count |-> -1, tweets |-> buffer]

\* an exception in PlaywrightScraper.scrape_user_tweets (583-585), returned as is (scraper.py 286-288)
ScrapeError ==
    /\ Suspended
    /\ result' = ErrorResult(all_tweets)
    /\ pc' = "done"
    /\ UNCHANGED <<diskVars, configVars, crawlVars, scrollVars, bufferVars, mergeVars, retryVars, xloginVars, loginVars, listenerVars,
                   session_all_tweets, existing_tweet_ids, sessions, delivered, clears,
                   write_failed>>

----------------------------------------------------------------------------
(* PlaywrightScraper._scroll_timeline *)

\* variant: the ceiling compared with <= instead of <
WithinCeilingInclusive(attempts) == attempts <= max_scroll_attempts

\* line 755: while scroll_attempts < self.max_scroll_attempts
WithinCeiling(attempts) == attempts < max_scroll_attempts

\* the while test, then: count the attempt, snapshot, scroll
NextIteration(attempts) ==
    IF WithinCeiling(attempts)
    THEN /\ scroll_attempts' = attempts + 1
         /\ tweets_before' = Len(all_tweets)
         /\ pc' = "sleeping"
    ELSE /\ scroll_attempts' = attempts
         /\ tweets_before' = tweets_before
         /\ pc' = "scrolled"

\* lines 750-757
ScrollStart ==
    /\ pc = "navigating"
    /\ scroll_attempts_without_new' = 0
    /\ resume_point_found' = (resume_from_tweet_id = NoId)
    /\ NextIteration(0)
    /\ UNCHANGED <<diskVars, configVars, crawlVars, bufferVars, mergeVars, retryVars, xloginVars, loginVars, listenerVars,
                   session_all_tweets, result, existing_tweet_ids, sessions, delivered, clears,
                   write_failed>>

OverlapCount(tweets, existing) ==
    Cardinality({i \in 1..Len(tweets) : tweets[i].id \in existing})

\* line 771-774: the overlap zone is detected in this iteration
OverlapReached ==
    /\ resume_from_tweet_id # NoId
    /\ ~resume_point_found
    /\ existing_tweet_ids # {}
    /\ OverlapCount(all_tweets, existing_tweet_ids) >= overlap_threshold

\* variant: the cap compared with > instead of >=
CapReachedStrict(found, tweets) ==
    found /\ max_tweets_per_session # 0 /\ Len(tweets) > max_tweets_per_session

\* line 813
CapReached(found, tweets) ==
    found /\ max_tweets_per_session # 0 /\ Len(tweets) >= max_tweets_per_session

\* variant: the attempt count compared with > instead of >=
ZeroTweetsAbortLate(attempts, tweets) ==
    attempts > ZeroTweetsAttempts /\ Len(tweets) = 0

\* line 801
ZeroTweetsAbort(attempts, tweets) ==
    attempts >= ZeroTweetsAttempts /\ Len(tweets) = 0

\* lines 806-811
StreakAbort(found, streak) ==
    \/ ~found /\ streak >= ResumeGiveUp
    \/ found /\ streak >= max_attempts_without_new

\* lines 767-816, from the end of the sleep to the awaited page-bottom evaluation
LoopCheck ==
    /\ pc = "sleeping"
    /\ LET hit == OverlapReached
           found == resume_point_found \/ hit
           tweets == IF hit THEN <<>> ELSE all_tweets
           new_tweets == IF hit THEN 0 ELSE Len(all_tweets) - tweets_before
           streak == IF new_tweets > 0 THEN 0
                     ELSE (IF hit THEN 0 ELSE scroll_attempts_without_new) + 1
           stop == \/ new_tweets <= 0 /\ ZeroTweetsAbort(scroll_attempts, tweets)
                   \/ new_tweets <= 0 /\ StreakAbort(found, streak)
                   \/ CapReached(found, tweets)
       IN  /\ resume_point_found' = found
           /\ all_tweets' = tweets
           /\ scraped_tweet_ids' = IF hit THEN {} ELSE scraped_tweet_ids
           /\ clears' = IF hit THEN clears + 1 ELSE clears
           /\ scroll_attempts_without_new' = streak
           /\ pc' = IF stop THEN "scrolled" ELSE "at_bottom"
    /\ UNCHANGED <<diskVars, configVars, crawlVars, mergeVars, retryVars, xloginVars, loginVars, listenerVars, scroll_attempts,
                   tweets_before, session_all_tweets, result, existing_tweet_ids,
                   sessions, delivered, write_failed>>

\* lines 819-849 and the next pass of the while test
LoopBottom(is_at_bottom, ten_minutes) ==
    /\ pc = "at_bottom"
    /\ IF \/ is_at_bottom /\ scroll_attempts_without_new > BottomStreak
          \/ ten_minutes /\ Len(all_tweets) = 0
       THEN /\ pc' = "scrolled"
            /\ UNCHANGED <<scroll_attempts, tweets_before>>
       ELSE NextIteration(scroll_attempts)
    /\ UNCHANGED <<diskVars, configVars, crawlVars, bufferVars, mergeVars, retryVars, xloginVars, loginVars, listenerVars,
                   scroll_attempts_without_new, resume_point_found,
                   session_all_tweets, result, existing_tweet_ids, sessions,
                   delivered, clears, write_failed>>

----------------------------------------------------------------------------
(* XScraper.scrape_user_tweets, after the scroll *)

\* lines 298-304
MergedTweets(existing, new) ==
    IF existing # <<>> THEN merge_tweets(existing, new) ELSE new

\* variant: total_tweets counts the tweets of this session
CheckpointDataSessionTotal(all, new, previous) ==
    LET sorted_by_id == SortedAsc(all)
    IN  [total_tweets |-> Len(new),
         oldest_tweet_id |-> sorted_by_id[1].id,
         newest_tweet_id |-> sorted_by_id[Len(all)].id,
         session_count |-> previous.session_count + 1,
         last_session_tweets |-> Len(new)]

\* variant: the bounds are those of the tweets of this session
CheckpointDataOfSession(all, new, previous) ==
    LET sorted_by_id == SortedAsc(IF new = <<>> THEN all ELSE new)
    IN  [total_tweets |-> Len(all),
         oldest_tweet_id |-> sorted_by_id[1].id,
         newest_tweet_id |-> sorted_by_id[Len(sorted_by_id)].id,
         session_count |-> previous.session_count + 1,
         last_session_tweets |-> Len(new)]

\* lines 310-327; previous is the checkpoint loaded at the start of the session
CheckpointData(all, new, previous) ==
    LET sorted_by_id == SortedAsc(all)
    IN  [total_tweets |-> Len(all),
         oldest_tweet_id |-> sorted_by_id[1].id,
         newest_tweet_id |-> sorted_by_id[Len(all)].id,
         session_count |-> previous.session_count + 1,
         last_session_tweets |-> Len(new)]

\* what a write leaves in the file
Written(outcome, old, new, unreadable) ==
    CASE outcome = "ok" -> new
      [] outcome = "unwritten" -> old
      [] OTHER -> unreadable

\* variant: the list is added to the one already in the file
save_all_tweets_append(outcome, file, tweets) ==
    Written(outcome, file, file \o sorted_tweets(tweets), <<>>)

\* save_all_tweets opens the file with 'w': the list written replaces the file's
save_all_tweets(outcome, file, tweets) ==
    Written(outcome, file, sorted_tweets(tweets), <<>>)

\* the checkpoint this session loaded: the file is not written between load and commit
LoadedCheckpoint == IF resume THEN checkpoint ELSE NoCheckpoint

\* variant: nothing is returned when a write of the session failed
SessionResultIfSaved(tweets) ==
    [error |-> FALSE,
     tweet_count |-> IF write_failed THEN 0 ELSE Len(tweets),
     tweets |-> IF write_failed THEN <<>> ELSE tweets]

\* lines 339-353: the result built from the merged list, whatever the saves did
SessionResult(tweets) ==
    [error |-> FALSE, tweet_count |-> Len(tweets), tweets |-> tweets]

\* the list of the result is self.all_tweets itself: playwright_scraper.py 578
\* and 585 return the attribute, scraper.py 286-288 returns an error result as
\* it is, and without existing tweets all_tweets = new_tweets (scraper.py 303)
ReturnedByReference ==
    /\ pc = "done"
    /\ result # NoResult
    /\ (result.error \/ existing_tweets = <<>>)

\* lines 290-334: merge, build the checkpoint, save_checkpoint
CommitCheckpoint(outcome) ==
    /\ pc = "scrolled"
    /\ LET all == MergedTweets(existing_tweets, all_tweets)
       IN  /\ session_all_tweets' = all
           /\ IF all # <<>>
              THEN /\ checkpoint' = Written(outcome, checkpoint,
                                        CheckpointData(all, all_tweets, LoadedCheckpoint),
                                        NoCheckpoint)
                   /\ write_failed' = (outcome # "ok")
                   /\ pc' = "saving"
                   /\ result' = result
              ELSE /\ checkpoint' = checkpoint
                   /\ write_failed' = write_failed
                   /\ pc' = "done"
                   /\ result' = SessionResult(all)
    /\ UNCHANGED <<archive, configVars, crawlVars, scrollVars, bufferVars, mergeVars, retryVars, xloginVars, loginVars, listenerVars,
                   existing_tweet_ids, sessions, delivered, clears>>

\* lines 337-348: save_all_tweets, then the result
CommitArchive(outcome) ==
    /\ pc = "saving"
    /\ archive' = save_all_tweets(outcome, archive, session_all_tweets)
    /\ write_failed' = (write_failed \/ outcome # "ok")
    /\ result' = SessionResult(session_all_tweets)
    /\ pc' = "done"
    /\ UNCHANGED <<checkpoint, configVars, crawlVars, scrollVars, bufferVars, mergeVars, retryVars, xloginVars, loginVars, listenerVars,
                   session_all_tweets, existing_tweet_ids, sessions, delivered, clears>>

----------------------------------------------------------------------------
(* PlaywrightScraper.initialize (cookies) and PlaywrightScraper.login *)

CookieFiles == {"absent", "saved", "unreadable"}

\* the addresses the page can be at, as the parts of the address
TwitterHome == <<"https:", "twitter.com", "home">>
XHome == <<"https:", "x.com", "home">>
LoginFlow == <<"https:", "x.com", "i", "flow", "login">>
AccountAccess == <<"https:", "x.com", "account", "access">>
Blank == <<"about:blank">>

Urls == {TwitterHome, XHome, LoginFlow, AccountAccess, Blank}

\* where page.goto('https://x.com/home') can leave the page
AfterHomeGoto == {XHome, LoginFlow, AccountAccess}

\* 'word' in current_url
UrlHas(url, word) == \E i \in 1..Len(url) : url[i] = word

InitBrowser ==
    /\ is_logged_in = FALSE
    /\ login_pc = "closed"
    /\ login_returned = "none"
    /\ page_url = Blank
    /\ login_calls = 0
    /\ login_via = "none"
    /\ indicator_missed = FALSE
    /\ email_absent = FALSE
    /\ last_wait = "none"

\* the behaviours without a browser session
NoLogin == cookies_file = "absent" /\ InitBrowser

loginFrame == <<crawlState, mergeVars, retryVars, xloginVars>>

\* initialize, lines 92-102: cookies that load mark the session logged in
Initialize ==
    /\ login_pc = "closed"
    /\ is_logged_in' = (cookies_file = "saved")
    /\ login_pc' = "ready"
    /\ UNCHANGED <<loginFrame, cookies_file, login_returned, page_url, login_calls,
                   login_via, indicator_missed, email_absent, last_wait>>

\* login is called, lines 363-369
LoginCall ==
    /\ login_pc = "ready"
    /\ login_calls < MaxLogins
    /\ login_calls' = login_calls + 1
    /\ login_returned' = "none"
    /\ login_via' = "none"
    /\ indicator_missed' = FALSE
    /\ email_absent' = FALSE
    /\ last_wait' = "none"
    /\ login_pc' = IF is_logged_in THEN "verifying" ELSE "login_page"
    /\ UNCHANGED <<loginFrame, cookies_file, is_logged_in, page_url>>

\* line 382: if 'login' not in current_url and 'flow' not in current_url
CookiesValidWithoutIndicator(url) == ~UrlHas(url, "login") /\ ~UrlHas(url, "flow")

\* lines 369-390: the cookie check
VerifyCookies(goto_ok, indicator, url) ==
    /\ login_pc = "verifying"
    /\ url \in AfterHomeGoto
    /\ indicator => goto_ok /\ url = XHome
    /\ page_url' = IF goto_ok THEN url ELSE page_url
    /\ indicator_missed' = ~(goto_ok /\ indicator)
    /\ last_wait' = IF ~goto_ok THEN "none" ELSE IF indicator THEN "found" ELSE "timeout"
    /\ IF goto_ok /\ (indicator \/ CookiesValidWithoutIndicator(url))
       THEN /\ login_returned' = "ok"
            /\ login_via' = "cookies"
            /\ login_pc' = "ready"
            /\ is_logged_in' = is_logged_in
       ELSE /\ login_returned' = login_returned
            /\ login_via' = login_via
            /\ login_pc' = "login_page"
            /\ is_logged_in' = FALSE
    /\ UNCHANGED <<loginFrame, cookies_file, login_calls, email_absent>>

\* return False of the interactive flow (lines 426, 469, 519, 523)
LoginFails ==
    /\ login_returned' = "fail"
    /\ login_via' = "interactive"
    /\ login_pc' = "ready"

\* lines 396-401: the login page is loaded; an exception ends in the outer except (521-523)
LoadLoginPage(loaded) ==
    /\ login_pc = "login_page"
    /\ IF loaded
       THEN /\ page_url' = LoginFlow
            /\ login_pc' = "username"
            /\ UNCHANGED <<login_returned, login_via>>
       ELSE /\ page_url' = page_url
            /\ LoginFails
    /\ UNCHANGED <<loginFrame, cookies_file, is_logged_in, login_calls, indicator_missed,
                   email_absent, last_wait>>

\* lines 403-426: identifier input and Next button, both required
EnterUsername(field_found, button_found) ==
    /\ login_pc = "username"
    /\ last_wait' = IF field_found /\ button_found THEN "found" ELSE "timeout"
    /\ IF field_found /\ button_found
       THEN /\ login_pc' = "email"
            /\ UNCHANGED <<login_returned, login_via>>
       ELSE LoginFails
    /\ UNCHANGED <<loginFrame, cookies_file, is_logged_in, page_url, login_calls,
                   indicator_missed, email_absent>>

\* variant: the email challenge waited for as a required step
AfterEmailWaitRequired(found) == IF found THEN "password" ELSE "failed"

\* lines 441-443: a bare except, the flow goes on to the password step
AfterEmailWait(found) == "password"

\* lines 429-443: the optional email challenge
EmailChallenge(input_found, button_found) ==
    /\ login_pc = "email"
    /\ email_absent' = ~input_found
    /\ last_wait' = IF input_found /\ button_found THEN "found" ELSE "timeout"
    /\ IF AfterEmailWait(input_found /\ button_found) = "failed"
       THEN LoginFails
       ELSE /\ login_pc' = AfterEmailWait(input_found /\ button_found)
            /\ UNCHANGED <<login_returned, login_via>>
    /\ UNCHANGED <<loginFrame, cookies_file, is_logged_in, page_url, login_calls,
                   indicator_missed>>

\* lines 445-469: password input and Login button, both required
EnterPassword(field_found, button_found) ==
    /\ login_pc = "password"
    /\ last_wait' = IF field_found /\ button_found THEN "found" ELSE "timeout"
    /\ IF field_found /\ button_found
       THEN /\ login_pc' = "complete"
            /\ UNCHANGED <<login_returned, login_via>>
       ELSE LoginFails
    /\ UNCHANGED <<loginFrame, cookies_file, is_logged_in, page_url, login_calls,
                   indicator_missed, email_absent>>

\* line 489: any(indicator in current_url.lower() for indicator in ['home', 'x.com', 'twitter.com'])
LoggedInByUrl(url) ==
    UrlHas(url, "home") \/ UrlHas(url, "x.com") \/ UrlHas(url, "twitter.com")

\* lines 472-519: wait_for_url('https://twitter.com/home'), then the address test
CompleteLogin(url) ==
    /\ login_pc = "complete"
    /\ url # Blank
    /\ page_url' = url
    /\ last_wait' = IF url = TwitterHome THEN "found" ELSE "timeout"
    /\ IF url = TwitterHome \/ LoggedInByUrl(url)
       THEN /\ is_logged_in' = TRUE
            /\ cookies_file' = "saved"
            /\ login_returned' = "ok"
            /\ login_via' = "interactive"
            /\ login_pc' = "ready"
       ELSE /\ is_logged_in' = is_logged_in
            /\ cookies_file' = cookies_file
            /\ LoginFails
    /\ UNCHANGED <<loginFrame, login_calls, indicator_missed, email_absent>>

----------------------------------------------------------------------------
(* decorators.py: retry_on_network_error and handle_rate_limit *)

\* exceptions.py and the built-in classes the wrapped operations raise
Classes == {"RuntimeError", "PlaywrightError", "NetworkError", "PageLoadError",
            "RateLimitError", "AuthenticationError"}

\* the base class of a class
Base(cls) ==
    CASE cls = "PageLoadError" -> "NetworkError"
      [] cls \in {"NetworkError", "RateLimitError", "AuthenticationError"} -> "XScraperError"
      [] OTHER -> "Exception"

\* issubclass(cls, base): what 'except base' catches
RECURSIVE IsSubclass(_, _)
IsSubclass(cls, base) ==
    \/ cls = base
    \/ cls # "Exception" /\ IsSubclass(Base(cls), base)

NoException == [cls |-> "None", retry_after |-> 0]

Ok == [cls |-> "ok", retry_after |-> 0]

\* RateLimitError carries retry_after (exceptions.py 19-21)
Exceptions ==
    {[cls |-> c, retry_after |-> 0] : c \in Classes}
        \cup {[cls |-> "RateLimitError", retry_after |-> n] : n \in 1..MaxRetryAfter}

\* _navigate_with_retry, lines 600-613: RuntimeError without a page, any
\* failure of goto raised as PageLoadError
NavigateOutcomes ==
    {Ok, [cls |-> "RuntimeError", retry_after |-> 0],
         [cls |-> "PageLoadError", retry_after |-> 0]}

\* page.goto(profile_url, ...) at playwright_scraper.py 548-550: Playwright's
\* Error (TimeoutError is one) when the navigation fails
GotoOutcomes == {Ok, [cls |-> "PlaywrightError", retry_after |-> 0]}

\* what an invocation of the wrapped operation can do
Outcomes ==
    CASE decorator = "navigate" -> NavigateOutcomes
      [] decorator = "none" -> GotoOutcomes
      [] OTHER -> Exceptions \cup {Ok}

\* the exceptions tuple: (NetworkError,) by default, (Exception,) at playwright_scraper.py 598
Caught(cls) ==
    IF decorator = "navigate" THEN IsSubclass(cls, "Exception")
    ELSE IsSubclass(cls, "NetworkError")

NoCall ==
    /\ decorator = "retry"
    /\ max_retries = 0
    /\ delay = 1
    /\ backoff = 1
    /\ call_pc = "idle"
    /\ attempt = 0
    /\ current_delay = 0
    /\ last_exception = NoException
    /\ raised_exc = NoException
    /\ outcomes = <<>>
    /\ slept = <<>>

retryFrame == <<crawlState, mergeVars, loginVars, xloginVars>>

\* the decorated function is called: lines 21-22
Call ==
    /\ call_pc = "idle"
    /\ current_delay' = IF decorator = "rate_limit" THEN 0 ELSE delay
    /\ last_exception' = NoException
    /\ attempt' = 0
    /\ call_pc' = "invoking"
    /\ UNCHANGED <<retryFrame, decorator, max_retries, delay, backoff, raised_exc, outcomes, slept>>

\* variant: the last failed attempt also waits before the exception is raised
MoreAttemptsInclusive(k) == k <= max_retries

\* line 29: if attempt < max_retries
MoreAttempts(k) == k < max_retries

\* retry_on_network_error, lines 24-43: one pass of the for loop
RetryInvoke(outcome) ==
    /\ call_pc = "invoking"
    /\ decorator \in {"retry", "navigate"}
    /\ outcome \in Outcomes
    /\ outcomes' = Append(outcomes, outcome)
    /\ IF outcome = Ok
       THEN /\ call_pc' = "returned"
            /\ UNCHANGED <<last_exception, raised_exc>>
       ELSE IF ~Caught(outcome.cls)
       THEN /\ call_pc' = "raised"
            /\ raised_exc' = outcome
            /\ UNCHANGED last_exception
       ELSE /\ last_exception' = outcome
            /\ IF MoreAttempts(attempt)
               THEN call_pc' = "sleeping" /\ UNCHANGED raised_exc
               ELSE call_pc' = "raised" /\ raised_exc' = outcome
    /\ UNCHANGED <<retryFrame, decorator, max_retries, delay, backoff, attempt,
                   current_delay, slept>>

\* lines 34-35: asyncio.sleep(current_delay); current_delay *= backoff; next pass
RetryWake ==
    /\ call_pc = "sleeping"
    /\ decorator \in {"retry", "navigate"}
    /\ slept' = Append(slept, current_delay)
    /\ current_delay' = current_delay * backoff
    /\ attempt' = attempt + 1
    /\ call_pc' = "invoking"
    /\ UNCHANGED <<retryFrame, decorator, max_retries, delay, backoff, last_exception,
                   raised_exc, outcomes>>

\* playwright_scraper.py 548-550: the navigation of scrape_user_tweets, awaited as it is
DirectInvoke(outcome) ==
    /\ call_pc = "invoking"
    /\ decorator = "none"
    /\ outcome \in Outcomes
    /\ outcomes' = Append(outcomes, outcome)
    /\ IF outcome = Ok
       THEN call_pc' = "returned" /\ UNCHANGED raised_exc
       ELSE call_pc' = "raised" /\ raised_exc' = outcome
    /\ UNCHANGED <<retryFrame, decorator, max_retries, delay, backoff, attempt,
                   current_delay, last_exception, slept>>

\* handle_rate_limit, lines 83-92: the call, and the call after the wait
RateLimitInvoke(outcome) ==
    /\ call_pc = "invoking"
    /\ decorator = "rate_limit"
    /\ outcome \in Outcomes
    /\ outcomes' = Append(outcomes, outcome)
    /\ IF outcome = Ok
       THEN /\ call_pc' = "returned"
            /\ UNCHANGED <<last_exception, raised_exc, current_delay>>
       ELSE IF attempt = 0 /\ IsSubclass(outcome.cls, "RateLimitError")
       THEN /\ call_pc' = "sleeping"
            /\ last_exception' = outcome
            /\ current_delay' = IF outcome.retry_after # 0 THEN outcome.retry_after
                                 ELSE RateLimitWait
            /\ UNCHANGED raised_exc
       ELSE /\ call_pc' = "raised"
            /\ raised_exc' = outcome
            /\ UNCHANGED <<last_exception, current_delay>>
    /\ UNCHANGED <<retryFrame, decorator, max_retries, delay, backoff, attempt, slept>>

\* lines 90-92: asyncio.sleep(retry_after), then the operation once more
RateLimitWake ==
    /\ call_pc = "sleeping"
    /\ decorator = "rate_limit"
    /\ slept' = Append(slept, current_delay)
    /\ attempt' = attempt + 1
    /\ call_pc' = "invoking"
    /\ UNCHANGED <<retryFrame, decorator, max_retries, delay, backoff, current_delay,
                   last_exception, raised_exc, outcomes>>

----------------------------------------------------------------------------
(* XScraper.login (scraper.py 121-165) and the login check of a crawl      *)
(* (scraper.py 271-273)                                                    *)

NoXLogin ==
    /\ playwright_scraper = "None"
    /\ browser_ready = FALSE
    /\ twitter_is_logged_in = FALSE
    /\ xlogin_log = <<>>

xloginFrame == <<crawlState, mergeVars, loginVars, retryVars>>

\* scraper.py 271: the crawl calls login() first
NeedsLogin == playwright_scraper = "None" \/ ~twitter_is_logged_in

\* one call of XScraper.login; initialize_ok and login_ok are what
\* PlaywrightScraper.initialize and PlaywrightScraper.login would return.
\* First branch (127-156): the scraper is created and kept, mark_logged_in
\* after a login that succeeded. Second branch (157-162): True when the
\* session is marked, else the value of PlaywrightScraper.login() as it is,
\* which raises without a page (playwright_scraper.py 364-365, caught at 164)
XLogin(caller, initialize_ok, login_ok) ==
    /\ Len(xlogin_log) < MaxXLogins
    /\ caller = "crawl" => NeedsLogin
    /\ IF playwright_scraper = "None"
       THEN /\ playwright_scraper' = "created"
            /\ browser_ready' = initialize_ok
            /\ twitter_is_logged_in' = (twitter_is_logged_in \/ (initialize_ok /\ login_ok))
            /\ xlogin_log' = Append(xlogin_log,
                                    [caller |-> caller,
                                     flow |-> initialize_ok,
                                     returned |-> initialize_ok /\ login_ok])
       ELSE IF twitter_is_logged_in
       THEN /\ xlogin_log' = Append(xlogin_log,
                                    [caller |-> caller, flow |-> FALSE, returned |-> TRUE])
            /\ UNCHANGED <<playwright_scraper, browser_ready, twitter_is_logged_in>>
       ELSE /\ xlogin_log' = Append(xlogin_log,
                                    [caller |-> caller,
                                     flow |-> browser_ready,
                                     returned |-> browser_ready /\ login_ok])
            /\ UNCHANGED <<playwright_scraper, browser_ready, twitter_is_logged_in>>
    /\ UNCHANGED xloginFrame

----------------------------------------------------------------------------
(* Crawl sessions of one target *)

Caps == 0..MaxCap

InitCrawl ==
    /\ overlap_threshold = MaxThreshold
    /\ pc = "idle"
    /\ resume = FALSE
    /\ max_tweets_per_session = 0
    /\ existing_tweets = <<>>
    /\ resume_from_tweet_id = NoId
    /\ session_all_tweets = <<>>
    /\ result = NoResult
    /\ all_tweets = <<>>
    /\ scraped_tweet_ids = {}
    /\ existing_tweet_ids = {}
    /\ scroll_attempts = 0
    /\ scroll_attempts_without_new = 0
    /\ resume_point_found = TRUE
    /\ tweets_before = 0
    /\ delivered = {}
    /\ clears = 0
    /\ write_failed = FALSE
    /\ mergeOut = <<>>
    /\ mergeStep = 0
    /\ handler = "returned"
    /\ faults = 0
    /\ faulted_at = -1
    /\ last_shape = "none"
    /\ after_anomaly = {}
    /\ stale_ids = {}

Init ==
    /\ InitCrawl
    /\ archive = <<>>
    /\ checkpoint = NoCheckpoint
    /\ sessions = 0
    /\ max_scroll_attempts = ShortScroll
    /\ max_attempts_without_new = ShortStreak
    /\ mergeA = <<>>
    /\ mergeB = <<>>
    /\ NoLogin
    /\ NoCall
    /\ NoXLogin

Next ==
    \/ \E r \in BOOLEAN, cap \in Caps, loadOk \in BOOLEAN : StartSession(r, cap, loadOk)
    \/ LoginFailed
    \/ \E entries \in Responses : Listener(entries)
    \/ ScrapeError
    \/ ScrollStart
    \/ LoopCheck
    \/ \E is_at_bottom \in BOOLEAN, ten_minutes \in BOOLEAN : LoopBottom(is_at_bottom, ten_minutes)
    \/ \E outcome \in WriteOutcomes : CommitCheckpoint(outcome)
    \/ \E outcome \in WriteOutcomes : CommitArchive(outcome)

Spec == Init /\ [][Next]_vars

----------------------------------------------------------------------------
(* One session with a scroll ceiling above the zero-tweets abort, on a      *)
(* target that is new or has the archive and checkpoint of an earlier       *)
(* session                                                                  *)

LongScroll == ZeroTweetsAttempts + 2

EarlierArchive == <<[id |-> TweetId(2), scraped_at |-> 0]>>

InitLong ==
    /\ InitCrawl
    /\ \/ archive = <<>> /\ checkpoint = NoCheckpoint
       \/ /\ archive = sorted_tweets(EarlierArchive)
          /\ checkpoint = CheckpointData(EarlierArchive, EarlierArchive, NoCheckpoint)
    /\ sessions = MaxSessions - 1
    /\ max_scroll_attempts = LongScroll
    /\ max_attempts_without_new \in {ShortStreak, LongScroll}
    /\ mergeA = <<>>
    /\ mergeB = <<>>
    /\ NoLogin
    /\ NoCall
    /\ NoXLogin

SpecLong == InitLong /\ [][Next]_vars

----------------------------------------------------------------------------
(* One session in which responses fail to decode or to parse *)

InitFaults ==
    /\ InitCrawl
    /\ \/ archive = <<>> /\ checkpoint = NoCheckpoint
       \/ /\ archive = sorted_tweets(EarlierArchive)
          /\ checkpoint = CheckpointData(EarlierArchive, EarlierArchive, NoCheckpoint)
    /\ sessions = MaxSessions - 1
    /\ max_scroll_attempts = ShortScroll
    /\ max_attempts_without_new = ShortStreak
    /\ mergeA = <<>>
    /\ mergeB = <<>>
    /\ NoLogin
    /\ NoCall
    /\ NoXLogin

NextFaults ==
    \/ Next
    \/ \E fault \in Faults, handled \in Responses \cup {<<>>} : FaultyResponse(fault, handled)

SpecFaults == InitFaults /\ [][NextFaults]_vars

----------------------------------------------------------------------------
(* One session under each scroll ceiling, in which every await of the loop  *)
(* completes                                                                *)

InitScroll ==
    /\ InitCrawl
    /\ \/ archive = <<>> /\ checkpoint = NoCheckpoint
       \/ /\ archive = sorted_tweets(EarlierArchive)
          /\ checkpoint = CheckpointData(EarlierArchive, EarlierArchive, NoCheckpoint)
    /\ sessions = MaxSessions - 1
    /\ max_scroll_attempts \in 1..ShortScroll
    /\ max_attempts_without_new \in {ShortStreak, LongScroll}
    /\ mergeA = <<>>
    /\ mergeB = <<>>
    /\ NoLogin
    /\ NoCall
    /\ NoXLogin

\* page.evaluate and asyncio.sleep return, and the code after them runs
ScrollFairness ==
    /\ WF_vars(ScrollStart)
    /\ WF_vars(LoopCheck)
    /\ WF_vars(\E is_at_bottom \in BOOLEAN, ten_minutes \in BOOLEAN :
                  LoopBottom(is_at_bottom, ten_minutes))

SpecScroll == InitScroll /\ [][Next]_vars /\ ScrollFairness

----------------------------------------------------------------------------
(* The login flow of one browser session, from each state of the cookie file *)

InitLogin ==
    /\ InitCrawl
    /\ archive = <<>>
    /\ checkpoint = NoCheckpoint
    /\ sessions = 0
    /\ max_scroll_attempts = ShortScroll
    /\ max_attempts_without_new = ShortStreak
    /\ mergeA = <<>>
    /\ mergeB = <<>>
    /\ cookies_file \in CookieFiles
    /\ InitBrowser
    /\ NoCall
    /\ NoXLogin

NextLogin ==
    \/ Initialize
    \/ LoginCall
    \/ \E goto_ok \in BOOLEAN, indicator \in BOOLEAN, url \in Urls :
           VerifyCookies(goto_ok, indicator, url)
    \/ \E loaded \in BOOLEAN : LoadLoginPage(loaded)
    \/ \E field_found \in BOOLEAN, button_found \in BOOLEAN :
           EnterUsername(field_found, button_found)
    \/ \E input_found \in BOOLEAN, button_found \in BOOLEAN :
           EmailChallenge(input_found, button_found)
    \/ \E field_found \in BOOLEAN, button_found \in BOOLEAN :
           EnterPassword(field_found, button_found)
    \/ \E url \in Urls : CompleteLogin(url)

SpecLogin == InitLogin /\ [][NextLogin]_vars

----------------------------------------------------------------------------
(* One call of a decorated operation, under each decorator and configuration *)

InitRetry ==
    /\ InitCrawl
    /\ archive = <<>>
    /\ checkpoint = NoCheckpoint
    /\ sessions = 0
    /\ max_scroll_attempts = ShortScroll
    /\ max_attempts_without_new = ShortStreak
    /\ mergeA = <<>>
    /\ mergeB = <<>>
    /\ NoLogin
    /\ NoXLogin
    /\ decorator \in {"retry", "navigate", "rate_limit", "none"}
    /\ IF decorator = "navigate"
       THEN max_retries = NavigateRetries /\ delay = NavigateDelay /\ backoff = DefaultBackoff
       ELSE IF decorator = "retry"
       THEN max_retries \in 0..MaxRetries /\ delay \in 1..MaxDelay /\ backoff \in 1..MaxBackoff
       ELSE max_retries = 0 /\ delay = 1 /\ backoff = 1
    /\ call_pc = "idle"
    /\ attempt = 0
    /\ current_delay = 0
    /\ last_exception = NoException
    /\ raised_exc = NoException
    /\ outcomes = <<>>
    /\ slept = <<>>

NextRetry ==
    \/ Call
    \/ \E outcome \in Exceptions \cup {Ok} : RetryInvoke(outcome)
    \/ RetryWake
    \/ \E outcome \in Exceptions \cup {Ok} : RateLimitInvoke(outcome)
    \/ RateLimitWake
    \/ \E outcome \in Exceptions \cup {Ok} : DirectInvoke(outcome)

SpecRetry == InitRetry /\ [][NextRetry]_vars

----------------------------------------------------------------------------
(* Calls of XScraper.login on one XScraper, by the user and by crawls *)

InitXLogin ==
    /\ InitCrawl
    /\ archive = <<>>
    /\ checkpoint = NoCheckpoint
    /\ sessions = 0
    /\ max_scroll_attempts = ShortScroll
    /\ max_attempts_without_new = ShortStreak
    /\ mergeA = <<>>
    /\ mergeB = <<>>
    /\ NoLogin
    /\ NoCall
    /\ NoXLogin

NextXLogin ==
    \E caller \in {"user", "crawl"}, initialize_ok \in BOOLEAN, login_ok \in BOOLEAN :
        XLogin(caller, initialize_ok, login_ok)

SpecXLogin == InitXLogin /\ [][NextXLogin]_vars

----------------------------------------------------------------------------
(* One session whose responses are whole payloads, of known and unknown    *)
(* shapes, with anomalous entries                                          *)

InitPayload == InitFaults

NextPayload ==
    \/ Next
    \/ \E payload \in Payloads : PayloadResponse(payload)

SpecPayload == InitPayload /\ [][NextPayload]_vars

----------------------------------------------------------------------------
(* Crawl sessions of one target on one page, with responses of the         *)
(* previous crawl still in flight when the next starts                     *)

NextStale ==
    \/ Next
    \/ \E entries \in Responses : StaleResponse(entries)

SpecStale == Init /\ [][NextStale]_vars

----------------------------------------------------------------------------
(* CheckpointManager.merge_tweets on given lists: merged once, then the     *)
(* result merged again as the new list or as the existing list              *)

MergeIds == {<<>>, TweetId(1), TweetId(2)}

MergeTweets == [id : MergeIds, scraped_at : 1..MaxStamp]

MergeLists == UNION {[1..n -> MergeTweets] : n \in 0..MaxLen}

InitMerge ==
    /\ InitCrawl
    /\ archive = <<>>
    /\ checkpoint = NoCheckpoint
    /\ sessions = 0
    /\ max_scroll_attempts = ShortScroll
    /\ max_attempts_without_new = ShortStreak
    /\ mergeA \in MergeLists
    /\ mergeB \in MergeLists
    /\ NoLogin
    /\ NoCall
    /\ NoXLogin

\* merge_tweets(existing, new)
MergeOnce ==
    /\ mergeStep = 0
    /\ mergeOut' = merge_tweets(mergeA, mergeB)
    /\ mergeStep' = 1
    /\ UNCHANGED <<crawlState, loginVars, retryVars, xloginVars, mergeA, mergeB>>

\* merge_tweets(existing, merged)
MergeResultAgain ==
    /\ mergeStep \in 1..(MaxMerges - 1)
    /\ mergeOut' = merge_tweets(mergeA, mergeOut)
    /\ mergeStep' = mergeStep + 1
    /\ UNCHANGED <<crawlState, loginVars, retryVars, xloginVars, mergeA, mergeB>>

\* merge_tweets(merged, new)
MergeNewAgain ==
    /\ mergeStep \in 1..(MaxMerges - 1)
    /\ mergeOut' = merge_tweets(mergeOut, mergeB)
    /\ mergeStep' = mergeStep + 1
    /\ UNCHANGED <<crawlState, loginVars, retryVars, xloginVars, mergeA, mergeB>>

NextMerge == MergeOnce \/ MergeResultAgain \/ MergeNewAgain

SpecMerge == InitMerge /\ [][NextMerge]_vars

----------------------------------------------------------------------------
(* The checkpoint built from an archive and the tweets of a session, with   *)
(* ids of different lengths and an id that is not a number                  *)

\* an id for which str.isdigit() is False
NonNumericId == <<10>>

BoundIds == TimelineIds \cup {NonNumericId}

BoundLists ==
    {l \in UNION {[1..n -> [id : BoundIds, scraped_at : 1..MaxStamp]] : n \in 0..MaxLen} :
        NoDuplicateIds(l)}

\* the archive as save_all_tweets left it, the buffer as the listener filled it
InitBounds ==
    /\ InitCrawl
    /\ archive = <<>>
    /\ checkpoint = NoCheckpoint
    /\ sessions = 0
    /\ max_scroll_attempts = ShortScroll
    /\ max_attempts_without_new = ShortStreak
    /\ mergeA \in {sorted_tweets(l) : l \in BoundLists}
    /\ mergeB \in {l \in BoundLists : IdsOf(l) \cap IdsOf(mergeA) = {}}
    /\ NoLogin
    /\ NoCall
    /\ NoXLogin

\* scraper.py 298-327: all_tweets, sorted_by_id and checkpoint_data
BuildCheckpoint ==
    /\ mergeStep = 0
    /\ LET all == MergedTweets(mergeA, mergeB)
       IN  /\ all # <<>>
           /\ mergeOut' = all
           /\ checkpoint' = CheckpointData(all, mergeB, NoCheckpoint)
    /\ mergeStep' = 1
    /\ UNCHANGED <<archive, configVars, crawlVars, scrollVars, bufferVars, listenerVars, pc,
                   session_all_tweets, result, existing_tweet_ids, sessions, delivered,
                   clears, write_failed, loginVars, retryVars, xloginVars, mergeA, mergeB>>

NextBounds == BuildCheckpoint

SpecBounds == InitBounds /\ [][NextBounds]_vars

----------------------------------------------------------------------------
(* Properties *)

\* C1: a session never removes previously collected items: every id in the
\* persisted Archive before a completed session's archive write is in the
\* persisted Archive after it.
C1_SessionKeepsArchivedItems ==
    [][(pc = "saving" /\ pc' = "done" /\ ~write_failed')
          => IdsOf(archive) \subseteq IdsOf(archive')]_vars

\* C2: the persisted Archive never contains two items with the same id.
C2_ArchiveHasNoDuplicateIds == NoDuplicateIds(archive)

\* a resume session has merged its new tweets into the archive of an earlier one
C2_MergedArchivePersisted ==
    /\ pc = "done"
    /\ existing_tweets # <<>>
    /\ ~write_failed
    /\ Len(archive) > Len(existing_tweets)

\* C3: in a resume session with non-empty existingIds, an iteration of the
\* scroll loop that runs once overlap_threshold items with ids in existingIds
\* have been fed to the listener leaves the resume point confirmed and the
\* buffer cleared exactly once.
C3_OverlapConfirmsResumePoint ==
    [][(/\ pc = "sleeping"
        /\ pc' \in {"at_bottom", "scrolled"}
        /\ resume_from_tweet_id # NoId
        /\ existing_tweet_ids # {}
        /\ Cardinality(delivered \cap existing_tweet_ids) >= overlap_threshold)
          => (resume_point_found' /\ clears' = 1)]_vars

\* C4: every item a resume session's scroll returns has a numeric id below
\* the oldest id of the archive it resumes from.
C4_ResumeReturnsOnlyOlder ==
    (pc = "scrolled" /\ resume_from_tweet_id # NoId /\ existing_tweet_ids # {})
        => \A i \in 1..Len(all_tweets) :
               IntOf(all_tweets[i].id) < IntOf(resume_from_tweet_id)

\* C5: a resume session's scroll that ends without the resume point confirmed
\* returns none of the items buffered so far.
C5_UnconfirmedReturnsNothing ==
    (/\ pc = "scrolled"
     /\ resume_from_tweet_id # NoId
     /\ existing_tweet_ids # {}
     /\ ~resume_point_found)
        => all_tweets = <<>>

\* C6 as stated: with a cap M and the resume point confirmed the loop never
\* returns with more than M items in the buffer.
C6_LoopReturnsAtMostCap ==
    (pc = "scrolled" /\ max_tweets_per_session # 0 /\ resume_point_found)
        => Len(all_tweets) <= max_tweets_per_session

\* C6 amended: with a cap M and the resume point confirmed, an iteration whose
\* checks find M or more items in the buffer ends the loop: no iteration is
\* started after it (the buffer may then hold more than M items).
C6_CapCheckEndsLoop ==
    [][(/\ pc = "sleeping"
        /\ pc' \in {"at_bottom", "scrolled"}
        /\ max_tweets_per_session # 0
        /\ resume_point_found'
        /\ Len(all_tweets') >= max_tweets_per_session)
          => pc' = "scrolled"]_vars

\* the loop has returned with more items than the cap
C6_LoopReturnedPastCap ==
    /\ pc = "scrolled"
    /\ max_tweets_per_session # 0
    /\ resume_point_found
    /\ Len(all_tweets) > max_tweets_per_session

\* C7: while the buffer is empty the scroll loop makes no attempt beyond the
\* 20th, whatever max_scroll_attempts above 20 allows.
C7_ZeroProgressAbort ==
    (pc \in {"sleeping", "at_bottom", "scrolled"} /\ all_tweets = <<>>)
        => scroll_attempts <= ZeroTweetsAttempts

\* the loop gave up at the 20th attempt with an empty buffer, below both ceilings
C7_AbortedAtTwentieth ==
    /\ pc = "scrolled"
    /\ all_tweets = <<>>
    /\ scroll_attempts = ZeroTweetsAttempts
    /\ scroll_attempts < max_scroll_attempts
    /\ scroll_attempts_without_new < max_attempts_without_new

\* the sessions of C8: completed, nothing failed
Completed == pc = "done" /\ ~result.error /\ ~write_failed

\* a fresh crawl without a cap whose feed showed at least one item
FreshCrawlDone ==
    /\ Completed
    /\ resume_from_tweet_id = NoId
    /\ existing_tweets = <<>>
    /\ max_tweets_per_session = 0
    /\ delivered # {}

\* a resume crawl whose feed showed every archived item and, besides, one or
\* more items all older than every archived one
ResumeCrawlDone ==
    /\ Completed
    /\ resume_from_tweet_id # NoId
    /\ existing_tweets # <<>>
    /\ existing_tweet_ids \subseteq delivered
    /\ delivered # existing_tweet_ids
    /\ \A k \in delivered \ existing_tweet_ids :
           \A e \in existing_tweet_ids : IntOf(k) < IntOf(e)

FreshCrawlResult ==
    LET n == Cardinality(delivered)
    IN  /\ Len(result.tweets) = n
        /\ IdsOf(result.tweets) = delivered
        /\ Len(archive) = n
        /\ IdsOf(archive) = delivered
        /\ checkpoint.total_tweets = n

C9_CheckpointCoveredByArchive ==
    checkpoint # NoCheckpoint =>
        /\ checkpoint.total_tweets <= Len(archive)
        /\ checkpoint.oldest_tweet_id \in IdsOf(archive)
        /\ checkpoint.newest_tweet_id \in IdsOf(archive)

\* C10: merge is idempotent: merging merge(A, B) into A again, or merging B
\* again into merge(A, B), gives merge(A, B).
C10_MergeIdempotent ==
    [][mergeStep >= 1 => mergeOut' = mergeOut]_vars

\* lists that share ids, with different payloads, have been merged and re-merged
C10_OverlappingListsRemerged ==
    /\ mergeStep = MaxMerges
    /\ \E i \in 1..Len(mergeA), j \in 1..Len(mergeB) :
           /\ mergeA[i].id = mergeB[j].id
           /\ mergeA[i] # mergeB[j]
           /\ Truthy(mergeA[i].id)
    /\ Len(mergeOut) >= 2

\* C11: the persisted Archive is sorted by the numeric value of id, descending,
\* after every session: ids compare as numbers, so a shorter id comes after a
\* longer one.
C11_ArchiveSortedNewestFirst ==
    \A i, j \in 1..Len(archive) :
        i < j => IntOf(archive[i].id) > IntOf(archive[j].id)

\* the archive written holds a longer id before a shorter one, which the
\* listener had buffered in the other order
C11_ShorterIdWrittenAfterLonger ==
    /\ pc = "done"
    /\ ~write_failed
    /\ Len(archive) >= 2
    /\ Len(archive[1].id) > Len(archive[Len(archive)].id)
    /\ \E i, j \in 1..Len(session_all_tweets) :
           /\ i < j
           /\ session_all_tweets[i].id = archive[Len(archive)].id
           /\ session_all_tweets[j].id = archive[1].id

\* C12: the orchestrator follows the decision table: with resume = false, or
\* with resume = true and no checkpoint, the session starts as a fresh crawl
\* (existingIds = {}, resumeTargetId = null); with resume = true and a
\* checkpoint it starts with existingIds = the ids in the Archive and
\* resumeTargetId = the checkpoint's oldest id.
C12_DecisionTable ==
    [][(Callable /\ pc' = "navigating") =>
          IF resume' /\ checkpoint # NoCheckpoint
          THEN /\ existing_tweet_ids' = IdsOf(archive)
               /\ resume_from_tweet_id' = checkpoint.oldest_tweet_id
          ELSE /\ existing_tweet_ids' = {}
               /\ resume_from_tweet_id' = NoId
               /\ existing_tweets' = <<>>]_vars

\* C13: when a crawl aborts mid-session (an exception during navigation or
\* scrolling) the crawl entry point does not raise: it returns a result that
\* carries an error marker and every item that was in the session buffer at
\* the moment of the abort.
C13_AbortReturnsBufferedItems ==
    [][(Suspended /\ pc' \notin {"navigating", "sleeping", "at_bottom", "scrolled"}) =>
          /\ pc' = "done"
          /\ result'.error
          /\ result'.tweets = all_tweets]_vars

\* a crawl aborted after the listener had buffered items has returned
C13_AbortedWithItems ==
    /\ pc = "done"
    /\ result.error
    /\ result.tweets # <<>>
    /\ scroll_attempts >= 1

C15_BufferUniqueAndNew ==
    /\ NoDuplicateIds(all_tweets)
    /\ IdsOf(all_tweets) \cap existing_tweet_ids = {}
    /\ IdsOf(all_tweets) = scraped_tweet_ids

\* the listener has been handed archived ids and new ones, and buffered the new ones
C15_ArchivedIdsHandled ==
    /\ Suspended
    /\ delivered \cap existing_tweet_ids # {}
    /\ all_tweets # <<>>
    /\ IdsOf(all_tweets) = delivered \ existing_tweet_ids

\* C16: the ResponseListener never raises to the browser's response-event
\* pathway: for every response, including one whose body fails to decode or
\* whose payload makes parsing fail, the handler returns normally, the crawl
\* stays where it was with the buffer it had (plus the entries handled before
\* the failure), and later responses are still processed.
C16_ListenerNeverRaises ==
    [][/\ handler' = "returned"
       /\ faults' # faults =>
              /\ pc' = pc
              /\ Len(all_tweets') >= Len(all_tweets)
              /\ SubSeq(all_tweets', 1, Len(all_tweets)) = all_tweets
       /\ (faults >= 1 /\ Suspended) =>
              \A id \in TimelineIds \ (scraped_tweet_ids \cup existing_tweet_ids) :
                  ENABLED (Listener(<<id>>) /\ Len(all_tweets') = Len(all_tweets) + 1)]_vars

\* after a response that failed the listener has buffered an item of a later response
C16_ProcessedAfterFault ==
    /\ faults >= 1
    /\ faulted_at >= 0
    /\ Len(all_tweets) > faulted_at
    /\ handler = "returned"

\* C17: the scroll loop always terminates: on every feed and every
\* interleaving of listener activity it executes at most max_scroll_attempts
\* iterations and then returns.
C17_ScrollLoopTerminates ==
    /\ [](scroll_attempts <= max_scroll_attempts)
    /\ [](Suspended => <>(pc \in {"scrolled", "saving", "done"}))

\* the loop has run max_scroll_attempts iterations, collecting in each, and
\* returned on the while test
C17_StoppedByCeiling ==
    /\ pc = "scrolled"
    /\ scroll_attempts = max_scroll_attempts
    /\ scroll_attempts >= 2
    /\ max_tweets_per_session = 0
    /\ scroll_attempts_without_new = 0
    /\ Len(all_tweets) >= 2

\* C18: when saved cookies exist but the success indicator does not appear
\* within the verification timeout, login does not report LoggedIn on the
\* basis of cookie reuse: it falls through to the interactive steps.
C18_NoIndicatorFallsThrough ==
    (indicator_missed /\ login_returned = "ok") => login_via = "interactive"

\* C19: interactive login returns ok and marks the session logged in only if
\* the page was seen at the authenticated home route; otherwise the login ends
\* fail.
C19_OkOnlyAtHome ==
    (login_via = "interactive" /\ login_returned = "ok") =>
        /\ UrlHas(page_url, "home")
        /\ is_logged_in

\* C20: in the interactive flow a timeout of the optional email-challenge wait
\* is not an error, the flow goes on with the password step; a timeout of a
\* required step (identifier input, password input, submit buttons) ends the
\* login with fail.
C20_OnlyRequiredStepsAbort ==
    [][/\ (login_pc = "email" /\ last_wait' = "timeout") =>
              (login_pc' = "password" /\ login_returned' = "none")
       /\ (login_pc \in {"username", "password"} /\ last_wait' = "timeout") =>
              (login_pc' = "ready" /\ login_returned' = "fail")]_vars

\* a login whose email-challenge wait timed out has gone on and returned ok at home
C20_LoggedInWithoutChallenge ==
    /\ login_returned = "ok"
    /\ login_via = "interactive"
    /\ email_absent
    /\ last_wait = "found"
    /\ page_url = TwitterHome

RECURSIVE Power(_, _)
Power(b, n) == IF n = 0 THEN 1 ELSE b * Power(b, n - 1)

\* C21: the retry policy is bounded exponential backoff: the wrapped operation
\* is invoked at most max_retries + 1 times, the wait before the k-th retry is
\* delay * backoff^(k-1), a success ends the retries at once, and after the
\* last failed attempt the last exception is re-raised without a further wait.
C21_BoundedBackoff ==
    decorator \in {"retry", "navigate"} =>
        /\ Len(outcomes) <= max_retries + 1
        /\ \A k \in 1..Len(slept) : slept[k] = delay * Power(backoff, k - 1)
        /\ Len(slept) = (IF call_pc \in {"invoking", "idle"}
                         THEN Len(outcomes) ELSE Len(outcomes) - 1)
        /\ Len(slept) <= max_retries
        /\ \A i \in 1..Len(outcomes) :
               outcomes[i] = Ok => (i = Len(outcomes) /\ call_pc = "returned")
        /\ (call_pc = "raised" /\ Caught(raised_exc.cls)) =>
               /\ Len(outcomes) = max_retries + 1
               /\ Len(slept) = max_retries
               /\ raised_exc = outcomes[Len(outcomes)]

\* every attempt failed: the last exception was raised after max_retries waits
C21_GaveUpAfterLastAttempt ==
    /\ decorator = "retry"
    /\ call_pc = "raised"
    /\ max_retries = MaxRetries
    /\ backoff >= 2
    /\ Len(outcomes) = max_retries + 1
    /\ Caught(raised_exc.cls)
    /\ outcomes[1] # outcomes[Len(outcomes)]

\* C22: navigation is retried only for transient network-class failures: a
\* failure of any other class raised by the navigation step (such as the
\* browser not being initialized) reaches the caller after that one attempt,
\* with no wait and no further invocation.
C22_OnlyNetworkFailuresRetried ==
    decorator = "navigate" =>
        \A i \in 1..Len(outcomes) :
            (outcomes[i] # Ok /\ ~IsSubclass(outcomes[i].cls, "NetworkError")) =>
                /\ i = Len(outcomes)
                /\ call_pc = "raised"
                /\ raised_exc = outcomes[i]

\* C23: a RateLimitError raised by a wrapped operation reaches the caller with
\* its retry_after; the wrapper does not wait and invoke the operation again.
C23_RateLimitPropagated ==
    decorator = "rate_limit" =>
        \A i \in 1..Len(outcomes) :
            outcomes[i].cls = "RateLimitError" =>
                /\ i = Len(outcomes)
                /\ slept = <<>>
                /\ call_pc = "raised"
                /\ raised_exc = outcomes[i]

\* the last tweet of a list with a given id
LastWithId(tweets, id) ==
    tweets[CHOOSE i \in 1..Len(tweets) :
               /\ tweets[i].id = id
               /\ \A j \in (i + 1)..Len(tweets) : tweets[j].id # id]

\* C24: merge is last-writer-wins per id: every id of either list appears in
\* the result exactly once; an id of the new list has the item of the new
\* list, an id of the existing list alone has the item of the existing list.
C24_LastWriterWins ==
    mergeStep = 1 =>
        /\ NoDuplicateIds(mergeOut)
        /\ IdsOf(mergeOut) = TruthyIdsOf(mergeA) \cup TruthyIdsOf(mergeB)
        /\ \A i \in 1..Len(mergeOut) :
               mergeOut[i] = IF mergeOut[i].id \in TruthyIdsOf(mergeB)
                             THEN LastWithId(mergeB, mergeOut[i].id)
                             ELSE LastWithId(mergeA, mergeOut[i].id)

\* both lists have the same id with different payloads, and the existing list
\* has an id the new list has not
C24_SharedIdMerged ==
    /\ mergeStep = 1
    /\ \E i \in 1..Len(mergeA), j \in 1..Len(mergeB) :
           /\ Truthy(mergeA[i].id)
           /\ mergeA[i].id = mergeB[j].id
           /\ mergeA[i].scraped_at # mergeB[j].scraped_at
    /\ TruthyIdsOf(mergeA) \ TruthyIdsOf(mergeB) # {}
    /\ Len(mergeOut) = 2

C26_SessionCountIncrements ==
    [][(pc = "scrolled" /\ pc' = "saving" /\ checkpoint # NoCheckpoint /\ ~write_failed')
          => checkpoint'.session_count = checkpoint.session_count + 1]_vars

\* C27: the checkpoint built at the end of a session has oldest_tweet_id equal
\* to the id of minimum numeric value and newest_tweet_id equal to the id of
\* maximum numeric value over the whole merged list, not only the session's
\* tweets; ids compare as numbers of any length, and an id that is not a
\* number counts as the lowest value and stays an id of its own.
C27_BoundsOverMergedArchive ==
    mergeStep = 1 =>
        /\ IdsOf(mergeOut) = IdsOf(mergeA) \cup IdsOf(mergeB)
        /\ Len(mergeOut) = Len(mergeA) + Len(mergeB)
        /\ \E i, j \in 1..Len(mergeOut) :
               /\ checkpoint.oldest_tweet_id = mergeOut[i].id
               /\ checkpoint.newest_tweet_id = mergeOut[j].id
               /\ \A k \in 1..Len(mergeOut) :
                      /\ SortKey(mergeOut[i]) <= SortKey(mergeOut[k])
                      /\ SortKey(mergeOut[k]) <= SortKey(mergeOut[j])
        /\ NonNumericId \in IdsOf(mergeOut) =>
               SortKey([id |-> checkpoint.oldest_tweet_id]) = 0
        /\ checkpoint.total_tweets = Len(mergeOut)

\* the archive holds the newest id and an id that is not a number, the session
\* added a shorter id between them
C27_MixedIdsBounded ==
    /\ mergeStep = 1
    /\ IdsOf(mergeA) = {TweetId(2), NonNumericId}
    /\ IdsOf(mergeB) = {TweetId(1)}
    /\ checkpoint.oldest_tweet_id = NonNumericId
    /\ checkpoint.newest_tweet_id = TweetId(2)

\* C28: the list handed back by a finished scroll is not a shared mutable
\* reference: when the list the caller received is the buffer object itself,
\* no later step (a response handled after the loop, the reset at the start of
\* the next crawl) adds to it, removes from it or clears it.
C28_ReturnedListNotShared ==
    [][ReturnedByReference => all_tweets' = all_tweets]_vars

\* C29: every item the listener appends while the scroll loop runs is counted
\* in the new_tweets of exactly one iteration: after an iteration that counted
\* nothing and cleared nothing, the next iteration counts from the same buffer
\* length, so that an item appended during the page-bottom evaluation or the
\* refresh maneuver is counted by it and resets scroll_attempts_without_new.
C29_AppendsCountedOnce ==
    [][(/\ pc = "at_bottom"
        /\ pc' = "sleeping"
        /\ scroll_attempts_without_new > 0
        /\ clears = 0)
          => tweets_before' = tweets_before]_vars

\* C30: in the iteration where the overlap threshold is reached (overlap_threshold
\* items with archived ids have been observed in a resume session whose resume
\* point is not yet confirmed) the loop clears the buffer and the scraped ids,
\* confirms the resume point, ends the iteration with scroll_attempts_without_new
\* at zero and goes on to the next iteration.
C30_ConfirmingContinuesLoop ==
    [][(/\ pc = "sleeping"
        /\ pc' \in {"at_bottom", "scrolled"}
        /\ resume_from_tweet_id # NoId
        /\ ~resume_point_found
        /\ existing_tweet_ids # {}
        /\ Cardinality(delivered \cap existing_tweet_ids) >= overlap_threshold)
          => /\ resume_point_found'
             /\ all_tweets' = <<>>
             /\ scraped_tweet_ids' = {}
             /\ scroll_attempts_without_new' = 0
             /\ pc' = "at_bottom"]_vars

\* C31: in a resume session, responses that hold only archived items (so that
\* the buffer stays empty although the extractor produced items) do not make
\* the loop stop as a zero-extraction failure: the stop at the 20th attempt
\* with an empty buffer fires only when no item was extracted at all.
C31_ZeroAbortOnlyWithoutItems ==
    [][(/\ pc = "sleeping"
        /\ pc' = "scrolled"
        /\ ZeroTweetsAbort(scroll_attempts, all_tweets')
        /\ ~StreakAbort(resume_point_found', scroll_attempts_without_new'))
          => delivered = {}]_vars

\* the items of the feed that are older than the resume point and not archived
OlderUnseen ==
    {id \in delivered \ existing_tweet_ids : IntOf(id) < IntOf(resume_from_tweet_id)}

\* C32: in a resume session with a session cap M whose feed showed at least
\* overlap_threshold archived items and at least M older unseen items, the
\* loop has stopped only by the cap, with the resume point confirmed.
C32_ResumeStopsByCap ==
    (/\ pc = "scrolled"
     /\ resume_from_tweet_id # NoId
     /\ existing_tweet_ids # {}
     /\ max_tweets_per_session # 0
     /\ Cardinality(delivered \cap existing_tweet_ids) >= overlap_threshold
     /\ Cardinality(OlderUnseen) >= max_tweets_per_session)
        => (resume_point_found /\ CapReached(resume_point_found, all_tweets))

\* C35: the list merge_tweets returns is sorted by the numeric value of id,
\* descending, for every pair of lists.
C35_MergeResultSorted ==
    mergeStep = 1 =>
        \A i, j \in 1..Len(mergeOut) :
            i < j => SortKey(mergeOut[i]) >= SortKey(mergeOut[j])

\* C38: scraped_tweet_ids is exactly the set of ids of the tweets in the
\* buffer, at every point where the loop or the listener can observe them.
C38_ScrapedIdsMatchBuffer ==
    /\ scraped_tweet_ids = IdsOf(all_tweets)
    /\ Cardinality(scraped_tweet_ids) = Len(all_tweets)

\* the reset at the start of a second session emptied both, and the listener
\* has appended to both since
C38_RefilledAfterReset ==
    /\ sessions = 2
    /\ Suspended
    /\ Len(all_tweets) = 2
    /\ archive # <<>>

\* C39: after a commit whose writes both succeeded the checkpoint's
\* total_tweets is the number of tweets in the archive, and its oldest and
\* newest ids are ids of tweets in the archive.
C39_CheckpointMatchesArchive ==
    [][(pc = "saving" /\ pc' = "done" /\ ~write_failed')
          => /\ checkpoint'.total_tweets = Len(archive')
             /\ checkpoint'.oldest_tweet_id \in IdsOf(archive')
             /\ checkpoint'.newest_tweet_id \in IdsOf(archive')]_vars

\* a resume session added a tweet to a non-empty archive and both writes succeeded
C39_CommittedOverEarlierArchive ==
    /\ pc = "done"
    /\ ~write_failed
    /\ resume
    /\ existing_tweets # <<>>
    /\ all_tweets # <<>>
    /\ Len(archive) = Len(existing_tweets) + Len(all_tweets)
    /\ checkpoint.session_count = 2
    /\ checkpoint.last_session_tweets = Len(all_tweets)

\* C34: every page navigation of a crawl entry point (profile timeline, keyword
\* search, date-range search) goes through the bounded retry policy: a single
\* failed navigation is retried and does not by itself end the call.
C34_EntryNavigationsRetried ==
    (/\ decorator \in {"none", "navigate"}
     /\ Len(outcomes) = 1
     /\ outcomes[1] # Ok)
        => call_pc = "sleeping"

\* C40: whenever XScraper.login() returns True, twitter_session.is_logged_in
\* is True afterwards, for every sequence of login attempts, so that a later
\* crawl on the same XScraper does not run the browser login flow again.
C40_LoginMarksSession ==
    (xlogin_log # <<>> /\ xlogin_log[Len(xlogin_log)].returned) => twitter_is_logged_in

\* C33: every item a crawl returns was extracted from a response received for
\* that crawl's own page: a response of the previous crawl's page handled after
\* the reset, while the new page loads, puts no item into the new buffer.
C33_NoItemsOfPreviousPage ==
    (pc = "done" /\ result # NoResult) => IdsOf(result.tweets) \cap stale_ids = {}

\* C36: a structural anomaly in one entry of a timeline payload does not stop
\* the remaining entries of the payload from being extracted: every well-formed
\* tweet entry after the anomalous one is in the buffer (or was archived).
C36_EntriesAfterAnomalyExtracted ==
    after_anomaly \subseteq (scraped_tweet_ids \cup existing_tweet_ids)

\* C37: a payload that matches none of the known shapes yields no item without
\* raising: the buffer and scraped_tweet_ids are left as they were, the handler
\* returns, and the listener processes later responses.
C37_UnknownShapeIgnored ==
    [][/\ (last_shape' = "unknown" /\ last_shape # "unknown") =>
              /\ all_tweets' = all_tweets
              /\ scraped_tweet_ids' = scraped_tweet_ids
              /\ handler' = "returned"
              /\ pc' = pc
       /\ (last_shape = "unknown" /\ Suspended) =>
              \A id \in TimelineIds \ (scraped_tweet_ids \cup existing_tweet_ids) :
                  ENABLED (/\ PayloadResponse([shape |-> "timeline",
                                               entries |-> <<[kind |-> "tweet", id |-> id]>>])
                           /\ Len(all_tweets') = Len(all_tweets) + 1)]_vars

\* a payload of unknown shape was handled with tweets in the buffer, which are still there
C37_UnknownShapeHandled ==
    /\ last_shape = "unknown"
    /\ Suspended
    /\ handler = "returned"
    /\ all_tweets # <<>>
    /\ scraped_tweet_ids # TimelineIds

====
